---- MODULE Spec2Model ----
(***************************************************************************)
(* The three user-space heap allocators of 21_HeapAllocation:              *)
(*   variant 1  1_heap.c   pointer links, size_t sizes, 8-byte alignment   *)
(*   variant 2  v2_heap.c  uint8_t offsets, explicit coalesce_memory       *)
(*   variant 3  v3_heap.c  uint8_t offsets, coalescing free, ref counts    *)
(* The arena is read and written through BlockHeader records only, so the  *)
(* variable heap maps an arena offset to the BlockHeader stored there; an  *)
(* offset outside its domain holds bytes no operation reads before it      *)
(* writes them (the zero bytes of the static array, a payload, or a header *)
(* that was unlinked: a split writes every field of the header it makes,   *)
(* and the caller passes pointers to listed blocks only).  Pointers are    *)
(* arena offsets; NULL is -1.                                              *)
(***************************************************************************)
EXTENDS Integers, Sequences, FiniteSets, TLC

VARIABLES variant, heap, free_list, last, calls, trk

vars == <<variant, heap, free_list, last, calls, trk>>

Variants == {1, 2, 3}

NULL == -1

\* ---------------------------------------------------------------- bounds
\* Width of size_t in the model of 1_heap.c (the arithmetic is modulo 2^w).
SizeTBits == 10
\* Every request 0..SmallReq is tried,
SmallReq == 1
\* and the multiples of ReqStep (see Requests).
ReqStep == 20
\* The caller makes at most MaxCalls calls in Spec.
MaxCalls == 6
\* Largest number of increment_ref calls of the scenario of SpecRef.
MaxK == 256

\* ------------------------------------------------------- program constants
V1_HEAP_SIZE == 128
V2_HEAP_SIZE == 128
V3_HEAP_SIZE == 64
ALIGNMENT == 8
\* sizeof(BlockHeader): size_t + int + padding + pointer on LP64; 3 and 4
\* uint8_t fields.
V1_HDR == 24
V2_HDR == 3
V3_HDR == 4
\* uint8_t arithmetic is modulo 256.
U8 == 256

SizeMod == 2 ^ SizeTBits

HeapSize(v) == CASE v = 1 -> V1_HEAP_SIZE [] v = 2 -> V2_HEAP_SIZE [] OTHER -> V3_HEAP_SIZE

Hdr(v) == CASE v = 1 -> V1_HDR [] v = 2 -> V2_HDR [] OTHER -> V3_HDR

\* The end-of-list value of a next link: NULL in 1_heap.c, offset 0 otherwise.
EndOfList(v) == IF v = 1 THEN NULL ELSE 0

\* A BlockHeader of the zero-initialised static arena.
ZeroHeader(v) ==
  CASE v = 1 -> [size |-> 0, is_free |-> 0, next |-> NULL]
    [] v = 2 -> [size |-> 0, is_free |-> 0, next |-> 0]
    [] OTHER -> [size |-> 0, is_free |-> 0, next |-> 0, ref_count |-> 0]

\* ALIGN that leaves the size as it is.
ALIGN_None(size) == size % SizeMod

\* ALIGN(size): (size + 7) & ~7 in size_t arithmetic.
ALIGN(size) ==
  LET s == (size + (ALIGNMENT - 1)) % SizeMod
  IN  s - (s % ALIGNMENT)

\* A read and a store through a BlockHeader pointer into the arena.
Load(v, h, off) == IF off \in DOMAIN h THEN h[off] ELSE ZeroHeader(v)

Store(v, h, off, rec) ==
  IF off \in 0..(HeapSize(v) - 1)
  THEN [o \in DOMAIN h \cup {off} |-> IF o = off THEN rec ELSE h[o]]
  ELSE h

\* ------------------------------------------------------------- traversal
\* The offsets print_heap visits, in order, starting at current.
RECURSIVE V1_Walk(_, _, _)
V1_Walk(h, current, fuel) ==
  IF current = NULL \/ fuel = 0 THEN <<>>
  ELSE <<current>> \o V1_Walk(h, Load(1, h, current).next, fuel - 1)

RECURSIVE U8_Walk(_, _, _, _)
U8_Walk(v, h, current_offset, fuel) ==
  IF ~(current_offset < HeapSize(v)) \/ fuel = 0 THEN <<>>
  ELSE <<current_offset>> \o
       (IF Load(v, h, current_offset).next = 0 THEN <<>>
        ELSE U8_Walk(v, h, Load(v, h, current_offset).next, fuel - 1))

\* One step more than a walk over headers that do not overlap can make; it
\* cuts a walk that does not end by itself.
WalkFuel(v) == HeapSize(v) \div Hdr(v) + 1

print_heap(v, h, fl) ==
  IF v = 1 THEN V1_Walk(h, fl, WalkFuel(v))
  ELSE U8_Walk(v, h, fl, WalkFuel(v))

\* The headers of h that a walk from the anchor reaches; the others are
\* never read again.
Linked(v, h, fl) ==
  LET w == print_heap(v, h, fl)
      on == {w[i] : i \in 1..Len(w)} \cap DOMAIN h
  IN  [o \in on |-> h[o]]

\* The blocks of the current state, in list order.
Blocks == print_heap(variant, heap, free_list)

BlockSet == {Blocks[i] : i \in 1..Len(Blocks)}

\* ---------------------------------------------------------------- caller
\* Payload pointers the caller may pass: of a listed block, or NULL.
Ptrs == {NULL} \cup {b + Hdr(variant) : b \in BlockSet}

\* Pointers to blocks that are allocated now.
LivePtrs == {b + Hdr(variant) : b \in {x \in BlockSet : heap[x].is_free = 0}}

\* What the caller may request of a type with values 0..max: the small
\* sizes, the multiples of ReqStep up to half the arena, the size of the
\* initial block and one more, and the largest value of the type.
Requests(v, max) ==
  {n \in 0..max : \/ n <= SmallReq
                  \/ n % ReqStep = 0 /\ 2 * n <= HeapSize(v)
                  \/ n = HeapSize(v) - Hdr(v)
                  \/ n = HeapSize(v) - Hdr(v) + 1
                  \/ n = max}

Requests1 == Requests(1, SizeMod - 1)

Requests2 == Requests(2, U8 - 1)

Requests3 == Requests(3, U8 - 1)

Called(op, arg, ret) == [op |-> op, arg |-> arg, ret |-> ret]

Initialized == last.op # "start"

\* One more call of the caller in Spec.
Call == calls < MaxCalls /\ calls' = calls + 1

\* ------------------------------------------------------------- 1_heap.c
V1_init_heap(h) ==
  Store(1, h, 0, [size |-> V1_HEAP_SIZE - V1_HDR, is_free |-> 1, next |-> NULL])

\* The while loop of my_malloc: the first block that is free and large
\* enough, or NULL.
RECURSIVE V1_Search(_, _, _)
V1_Search(h, current, size) ==
  IF current = NULL THEN NULL
  ELSE IF Load(1, h, current).is_free # 0 /\ Load(1, h, current).size >= size
       THEN current
  ELSE V1_Search(h, Load(1, h, current).next, size)

\* The body of the if: split when the rest can hold a header and more, then
\* mark the block allocated.
\* V1_Take that splits when the rest is exactly one header: >= for >.
V1_Take_SplitAtHeader(h, current, size) ==
  LET cur == Load(1, h, current)
      remaining == (cur.size - size) % SizeMod
      new_block == current + V1_HDR + size
      split == Store(1, h, new_block,
                     [size |-> (remaining - V1_HDR) % SizeMod, is_free |-> 1,
                      next |-> cur.next])
  IN  IF remaining >= V1_HDR
      THEN Store(1, split, current,
                 [size |-> size, is_free |-> 0, next |-> new_block])
      ELSE Store(1, h, current, [cur EXCEPT !.is_free = 0])

V1_Take(h, current, size) ==
  LET cur == Load(1, h, current)
      remaining == (cur.size - size) % SizeMod
      new_block == current + V1_HDR + size
      split == Store(1, h, new_block,
                     [size |-> (remaining - V1_HDR) % SizeMod, is_free |-> 1,
                      next |-> cur.next])
  IN  IF remaining > V1_HDR
      THEN Store(1, split, current,
                 [size |-> size, is_free |-> 0, next |-> new_block])
      ELSE Store(1, h, current, [cur EXCEPT !.is_free = 0])

V1_my_malloc(h, fl, n) ==
  IF n = 0 THEN [heap |-> h, ret |-> NULL]
  ELSE LET size == ALIGN(n)
           current == V1_Search(h, fl, size)
       IN  IF current = NULL THEN [heap |-> h, ret |-> NULL]
           ELSE [heap |-> V1_Take(h, current, size), ret |-> current + V1_HDR]

\* V1_my_free that takes ptr for the address of the header.
V1_my_free_Payload(h, ptr) ==
  IF ptr = NULL THEN h
  ELSE Store(1, h, ptr, [Load(1, h, ptr) EXCEPT !.is_free = 1])

V1_my_free(h, ptr) ==
  IF ptr = NULL THEN h
  ELSE LET block == ptr - V1_HDR
       IN  Store(1, h, block, [Load(1, h, block) EXCEPT !.is_free = 1])

v1_init_heap ==
  /\ variant = 1
  /\ Call
  /\ free_list' = 0
  /\ heap' = Linked(1, V1_init_heap(heap), 0)
  /\ last' = Called("init_heap", NULL, NULL)
  /\ UNCHANGED <<variant, trk>>

v1_my_malloc ==
  /\ variant = 1
  /\ Call
  /\ Initialized
  /\ \E n \in Requests1 :
       LET r == V1_my_malloc(heap, free_list, n)
       IN  /\ heap' = Linked(1, r.heap, free_list)
           /\ last' = Called("my_malloc", n, r.ret)
  /\ UNCHANGED <<variant, free_list, trk>>

v1_my_free ==
  /\ variant = 1
  /\ Call
  /\ Initialized
  /\ \E p \in Ptrs :
       /\ heap' = Linked(1, V1_my_free(heap, p), free_list)
       /\ last' = Called("my_free", p, NULL)
  /\ UNCHANGED <<variant, free_list, trk>>

\* ------------------------------------------------------------- v2_heap.c
\* V2_init_heap that leaves the next field of the first header as it is.
V2_init_heap_KeepNext(h) ==
  Store(2, h, 0, [Load(2, h, 0) EXCEPT !.size = V2_HEAP_SIZE - V2_HDR,
                                       !.is_free = 1])

\* V2_init_heap for an arena of 258 bytes, more than a uint8_t offset spans.
V2_init_heap_Wide(h) ==
  Store(2, h, 0, [size |-> U8 - 1, is_free |-> 1, next |-> 0])

V2_init_heap(h) ==
  Store(2, h, 0, [size |-> V2_HEAP_SIZE - V2_HDR, is_free |-> 1, next |-> 0])

\* V2_Search with > for >=: a block of exactly the requested size is passed
\* over.
RECURSIVE V2_Search_Strict(_, _, _)
V2_Search_Strict(h, current_offset, size) ==
  IF ~(current_offset < V2_HEAP_SIZE) THEN NULL
  ELSE IF /\ Load(2, h, current_offset).is_free # 0
          /\ Load(2, h, current_offset).size > size
       THEN current_offset
  ELSE IF Load(2, h, current_offset).next = 0 THEN NULL
  ELSE V2_Search_Strict(h, Load(2, h, current_offset).next, size)

\* The while loop of my_malloc: the offset of the first block that is free
\* and large enough, or NULL.
RECURSIVE V2_Search(_, _, _)
V2_Search(h, current_offset, size) ==
  IF ~(current_offset < V2_HEAP_SIZE) THEN NULL
  ELSE IF /\ Load(2, h, current_offset).is_free # 0
          /\ Load(2, h, current_offset).size >= size
       THEN current_offset
  ELSE IF Load(2, h, current_offset).next = 0 THEN NULL
  ELSE V2_Search(h, Load(2, h, current_offset).next, size)

\* V2_Take with new_block->next read from current->next after current->next
\* was set to the new block: the new block links to itself.
V2_Take_LinkAfter(h, current_offset, size) ==
  LET cur == Load(2, h, current_offset)
      remaining == (cur.size - size) % U8
      new_offset == (current_offset + V2_HDR + size) % U8
      split == Store(2, h, new_offset,
                     [size |-> (remaining - V2_HDR) % U8, is_free |-> 1,
                      next |-> new_offset])
  IN  IF remaining > V2_HDR
      THEN Store(2, split, current_offset,
                 [size |-> size, is_free |-> 0, next |-> new_offset])
      ELSE Store(2, h, current_offset, [cur EXCEPT !.is_free = 0])

V2_Take(h, current_offset, size) ==
  LET cur == Load(2, h, current_offset)
      remaining == (cur.size - size) % U8
      new_offset == (current_offset + V2_HDR + size) % U8
      split == Store(2, h, new_offset,
                     [size |-> (remaining - V2_HDR) % U8, is_free |-> 1,
                      next |-> cur.next])
  IN  IF remaining > V2_HDR
      THEN Store(2, split, current_offset,
                 [size |-> size, is_free |-> 0, next |-> new_offset])
      ELSE Store(2, h, current_offset, [cur EXCEPT !.is_free = 0])

V2_my_malloc(h, fl, size) ==
  LET current_offset == V2_Search(h, fl, size)
  IN  IF current_offset = NULL THEN [heap |-> h, ret |-> NULL]
      ELSE [heap |-> V2_Take(h, current_offset, size),
            ret |-> current_offset + V2_HDR]

\* V2_my_free without the NULL test, NULL being taken for the payload of the
\* first block.
V2_my_free_NullFirst(h, ptr) ==
  IF ptr = NULL THEN Store(2, h, 0, [Load(2, h, 0) EXCEPT !.is_free = 1])
  ELSE LET block_offset == (ptr - V2_HDR) % U8
       IN  Store(2, h, block_offset,
                 [Load(2, h, block_offset) EXCEPT !.is_free = 1])

V2_my_free(h, ptr) ==
  IF ptr = NULL THEN h
  ELSE LET block_offset == (ptr - V2_HDR) % U8
       IN  Store(2, h, block_offset,
                 [Load(2, h, block_offset) EXCEPT !.is_free = 1])

\* V2_coalesce_memory that moves on after a merge instead of testing the
\* same block again.
RECURSIVE V2_coalesce_memory_OnePass(_, _)
V2_coalesce_memory_OnePass(h, block) ==
  LET b == Load(2, h, block)
      next_block == Load(2, h, b.next)
  IN  IF b.next = 0 THEN h
      ELSE IF b.is_free # 0 /\ next_block.is_free # 0
           THEN LET merged == Store(2, h, block,
                                    [b EXCEPT !.size = (@ + V2_HDR + next_block.size) % U8,
                                              !.next = next_block.next])
                IN  IF next_block.next = 0 THEN merged
                    ELSE V2_coalesce_memory_OnePass(merged, next_block.next)
           ELSE V2_coalesce_memory_OnePass(h, b.next)

\* The while loop of coalesce_memory, from the block at offset block.
RECURSIVE V2_coalesce_memory(_, _)
V2_coalesce_memory(h, block) ==
  LET b == Load(2, h, block)
      next_block == Load(2, h, b.next)
  IN  IF b.next = 0 THEN h
      ELSE IF b.is_free # 0 /\ next_block.is_free # 0
           THEN V2_coalesce_memory(
                  Store(2, h, block,
                        [b EXCEPT !.size = (@ + V2_HDR + next_block.size) % U8,
                                  !.next = next_block.next]),
                  block)
           ELSE V2_coalesce_memory(h, b.next)

v2_init_heap ==
  /\ variant = 2
  /\ Call
  /\ heap' = Linked(2, V2_init_heap(heap), free_list)
  /\ last' = Called("init_heap", NULL, NULL)
  /\ UNCHANGED <<variant, free_list, trk>>

v2_my_malloc ==
  /\ variant = 2
  /\ Call
  /\ Initialized
  /\ \E n \in Requests2 :
       LET r == V2_my_malloc(heap, free_list, n)
       IN  /\ heap' = Linked(2, r.heap, free_list)
           /\ last' = Called("my_malloc", n, r.ret)
  /\ UNCHANGED <<variant, free_list, trk>>

v2_my_free ==
  /\ variant = 2
  /\ Call
  /\ Initialized
  /\ \E p \in Ptrs :
       /\ heap' = Linked(2, V2_my_free(heap, p), free_list)
       /\ last' = Called("my_free", p, NULL)
  /\ UNCHANGED <<variant, free_list, trk>>

v2_coalesce_memory ==
  /\ variant = 2
  /\ Call
  /\ Initialized
  /\ heap' = Linked(2, V2_coalesce_memory(heap, 0), free_list)
  /\ last' = Called("coalesce_memory", NULL, NULL)
  /\ UNCHANGED <<variant, free_list, trk>>

\* ------------------------------------------------------------- v3_heap.c
V3_init_heap(h) ==
  Store(3, h, 0, [size |-> V3_HEAP_SIZE - V3_HDR, is_free |-> 1, next |-> 0,
                  ref_count |-> 0])

RECURSIVE V3_Search(_, _, _)
V3_Search(h, current_offset, size) ==
  IF ~(current_offset < V3_HEAP_SIZE) THEN NULL
  ELSE IF /\ Load(3, h, current_offset).is_free # 0
          /\ Load(3, h, current_offset).size >= size
       THEN current_offset
  ELSE IF Load(3, h, current_offset).next = 0 THEN NULL
  ELSE V3_Search(h, Load(3, h, current_offset).next, size)

\* V3_Take with the new block's size not reduced by its own header.
V3_Take_KeepHeader(h, current_offset, size) ==
  LET cur == Load(3, h, current_offset)
      remaining == (cur.size - size) % U8
      new_offset == (current_offset + V3_HDR + size) % U8
      split == Store(3, h, new_offset,
                     [size |-> remaining, is_free |-> 1,
                      next |-> cur.next, ref_count |-> 0])
  IN  IF remaining > V3_HDR
      THEN Store(3, split, current_offset,
                 [size |-> size, is_free |-> 0, next |-> new_offset,
                  ref_count |-> 1])
      ELSE Store(3, h, current_offset,
                 [cur EXCEPT !.is_free = 0, !.ref_count = 1])

V3_Take(h, current_offset, size) ==
  LET cur == Load(3, h, current_offset)
      remaining == (cur.size - size) % U8
      new_offset == (current_offset + V3_HDR + size) % U8
      split == Store(3, h, new_offset,
                     [size |-> (remaining - V3_HDR) % U8, is_free |-> 1,
                      next |-> cur.next, ref_count |-> 0])
  IN  IF remaining > V3_HDR
      THEN Store(3, split, current_offset,
                 [size |-> size, is_free |-> 0, next |-> new_offset,
                  ref_count |-> 1])
      ELSE Store(3, h, current_offset,
                 [cur EXCEPT !.is_free = 0, !.ref_count = 1])

V3_my_malloc(h, fl, size) ==
  LET current_offset == V3_Search(h, fl, size)
  IN  IF current_offset = NULL THEN [heap |-> h, ret |-> NULL]
      ELSE [heap |-> V3_Take(h, current_offset, size),
            ret |-> current_offset + V3_HDR]

\* V3_Coalesce with the absorbed header's bytes not added to the size.
V3_Coalesce_DropHeader(h, block_offset) ==
  LET block == Load(3, h, block_offset)
      next_block == Load(3, h, block.next)
  IN  IF block.next # 0 /\ next_block.is_free # 0
      THEN Store(3, h, block_offset,
                 [block EXCEPT !.size = (@ + next_block.size) % U8,
                               !.next = next_block.next])
      ELSE h

\* V3_Coalesce with the link left on the absorbed block.
V3_Coalesce_KeepLink(h, block_offset) ==
  LET block == Load(3, h, block_offset)
      next_block == Load(3, h, block.next)
  IN  IF block.next # 0 /\ next_block.is_free # 0
      THEN Store(3, h, block_offset,
                 [block EXCEPT !.size = (@ + V3_HDR + next_block.size) % U8])
      ELSE h

\* V3_Coalesce repeated while the list-next neighbour is free.
RECURSIVE V3_Coalesce_All(_, _)
V3_Coalesce_All(h, block_offset) ==
  LET block == Load(3, h, block_offset)
      next_block == Load(3, h, block.next)
  IN  IF block.next # 0 /\ next_block.is_free # 0
      THEN V3_Coalesce_All(
             Store(3, h, block_offset,
                   [block EXCEPT !.size = (@ + V3_HDR + next_block.size) % U8,
                                 !.next = next_block.next]),
             block_offset)
      ELSE h

\* The block at block_offset, just marked free, absorbs its list-next
\* neighbour when that one is free.
V3_Coalesce(h, block_offset) ==
  LET block == Load(3, h, block_offset)
      next_block == Load(3, h, block.next)
  IN  IF block.next # 0 /\ next_block.is_free # 0
      THEN Store(3, h, block_offset,
                 [block EXCEPT !.size = (@ + V3_HDR + next_block.size) % U8,
                               !.next = next_block.next])
      ELSE h

\* V3_my_free that only marks the block free, as my_free of v2_heap.c does.
V3_my_free_MarkOnly(h, ptr) ==
  IF ptr = NULL THEN h
  ELSE LET block_offset == (ptr - V3_HDR) % U8
           block == Load(3, h, block_offset)
       IN  IF block.is_free = 0
           THEN Store(3, h, block_offset, [block EXCEPT !.is_free = 1])
           ELSE h

\* V3_my_free without the test that the block is not free already.
V3_my_free_Unguarded(h, ptr) ==
  IF ptr = NULL THEN h
  ELSE LET block_offset == (ptr - V3_HDR) % U8
           block == Load(3, h, block_offset)
       IN  V3_Coalesce(Store(3, h, block_offset, [block EXCEPT !.is_free = 1]),
                       block_offset)

V3_my_free(h, ptr) ==
  IF ptr = NULL THEN h
  ELSE LET block_offset == (ptr - V3_HDR) % U8
           block == Load(3, h, block_offset)
       IN  IF block.is_free = 0
           THEN V3_Coalesce(Store(3, h, block_offset, [block EXCEPT !.is_free = 1]),
                            block_offset)
           ELSE h

V3_increment_ref(h, ptr) ==
  IF ptr = NULL THEN h
  ELSE LET block_offset == (ptr - V3_HDR) % U8
           block == Load(3, h, block_offset)
       IN  Store(3, h, block_offset,
                 [block EXCEPT !.ref_count = (@ + 1) % U8])

\* V3_decrement_ref that releases while one holder is left.
V3_decrement_ref_Early(h, ptr) ==
  IF ptr = NULL THEN h
  ELSE LET block_offset == (ptr - V3_HDR) % U8
           block == Load(3, h, block_offset)
           dec == Store(3, h, block_offset, [block EXCEPT !.ref_count = @ - 1])
       IN  IF block.ref_count > 0
           THEN IF block.ref_count - 1 <= 1 THEN V3_my_free(dec, ptr) ELSE dec
           ELSE h

\* V3_decrement_ref without the ref_count > 0 test.
V3_decrement_ref_Unclamped(h, ptr) ==
  IF ptr = NULL THEN h
  ELSE LET block_offset == (ptr - V3_HDR) % U8
           block == Load(3, h, block_offset)
           dec == Store(3, h, block_offset,
                        [block EXCEPT !.ref_count = (@ - 1) % U8])
       IN  IF (block.ref_count - 1) % U8 = 0 THEN V3_my_free(dec, ptr) ELSE dec

V3_decrement_ref(h, ptr) ==
  IF ptr = NULL THEN h
  ELSE LET block_offset == (ptr - V3_HDR) % U8
           block == Load(3, h, block_offset)
           dec == Store(3, h, block_offset, [block EXCEPT !.ref_count = @ - 1])
       IN  IF block.ref_count > 0
           THEN IF block.ref_count - 1 = 0 THEN V3_my_free(dec, ptr) ELSE dec
           ELSE h

v3_init_heap ==
  /\ variant = 3
  /\ Call
  /\ heap' = Linked(3, V3_init_heap(heap), free_list)
  /\ last' = Called("init_heap", NULL, NULL)
  /\ UNCHANGED <<variant, free_list, trk>>

v3_my_malloc ==
  /\ variant = 3
  /\ Call
  /\ Initialized
  /\ \E n \in Requests3 :
       LET r == V3_my_malloc(heap, free_list, n)
       IN  /\ heap' = Linked(3, r.heap, free_list)
           /\ last' = Called("my_malloc", n, r.ret)
  /\ UNCHANGED <<variant, free_list, trk>>

v3_my_free ==
  /\ variant = 3
  /\ Call
  /\ Initialized
  /\ \E p \in Ptrs :
       /\ heap' = Linked(3, V3_my_free(heap, p), free_list)
       /\ last' = Called("my_free", p, NULL)
  /\ UNCHANGED <<variant, free_list, trk>>

v3_increment_ref ==
  /\ variant = 3
  /\ Call
  /\ Initialized
  /\ \E p \in LivePtrs \cup {NULL} :
       /\ heap' = Linked(3, V3_increment_ref(heap, p), free_list)
       /\ last' = Called("increment_ref", p, NULL)
  /\ UNCHANGED <<variant, free_list, trk>>

v3_decrement_ref ==
  /\ variant = 3
  /\ Call
  /\ Initialized
  /\ \E p \in Ptrs :
       /\ heap' = Linked(3, V3_decrement_ref(heap, p), free_list)
       /\ last' = Called("decrement_ref", p, NULL)
  /\ UNCHANGED <<variant, free_list, trk>>

\* ------------------------------------------------------ loop iterations
\* How many times the body of the while loop of my_malloc runs for the
\* request size, from the block at current; fuel cuts a walk that does not
\* end.
RECURSIVE my_malloc_loop(_, _, _, _, _)
my_malloc_loop(v, h, current, size, fuel) ==
  LET cur == Load(v, h, current)
      ends == IF v = 1 THEN current = NULL ELSE ~(current < HeapSize(v))
      last_one == IF v = 1 THEN FALSE ELSE cur.next = 0
  IN  IF fuel = 0 \/ ends THEN 0
      ELSE IF (cur.is_free # 0 /\ cur.size >= size) \/ last_one THEN 1
      ELSE 1 + my_malloc_loop(v, h, cur.next, size, fuel - 1)

\* How many times the body of the while loop of coalesce_memory runs.
RECURSIVE coalesce_memory_loop(_, _, _)
coalesce_memory_loop(h, block, fuel) ==
  LET b == Load(2, h, block)
      next_block == Load(2, h, b.next)
  IN  IF fuel = 0 \/ b.next = 0 THEN 0
      ELSE IF b.is_free # 0 /\ next_block.is_free # 0
           THEN 1 + coalesce_memory_loop(
                      Store(2, h, block,
                            [b EXCEPT !.size = (@ + V2_HDR + next_block.size) % U8,
                                      !.next = next_block.next]),
                      block, fuel - 1)
           ELSE 1 + coalesce_memory_loop(h, b.next, fuel - 1)

\* ------------------------------------------------------- specification
\* The static initialisers: a zeroed arena, free_list NULL (1_heap.c) or 0.
Init ==
  /\ variant \in Variants
  /\ heap = <<>>
  /\ free_list = (IF variant = 1 THEN NULL ELSE 0)
  /\ last = Called("start", NULL, NULL)
  /\ calls = 0
  /\ trk = [p |-> NULL, k |-> 0, d |-> 0]

Next ==
  \/ v1_init_heap
  \/ v1_my_malloc
  \/ v1_my_free
  \/ v2_init_heap
  \/ v2_my_malloc
  \/ v2_my_free
  \/ v2_coalesce_memory
  \/ v3_init_heap
  \/ v3_my_malloc
  \/ v3_my_free
  \/ v3_increment_ref
  \/ v3_decrement_ref

Spec == Init /\ [][Next]_vars

\* The reference-counting scenario of main in v3_heap.c, at any length: one
\* my_malloc, k increment_ref calls on its result, then decrement_ref calls
\* on it, and no other call.  trk holds the pointer, k and the number of
\* decrement_ref calls so far.
ref_init_heap ==
  /\ variant = 3
  /\ ~Initialized
  /\ heap' = Linked(3, V3_init_heap(heap), free_list)
  /\ last' = Called("init_heap", NULL, NULL)
  /\ UNCHANGED <<variant, free_list, calls, trk>>

ref_my_malloc ==
  /\ variant = 3
  /\ Initialized
  /\ trk.p = NULL
  /\ \E n \in Requests3 :
       LET r == V3_my_malloc(heap, free_list, n)
       IN  /\ heap' = Linked(3, r.heap, free_list)
           /\ last' = Called("my_malloc", n, r.ret)
           /\ trk' = [p |-> r.ret, k |-> 0, d |-> 0]
  /\ UNCHANGED <<variant, free_list, calls>>

ref_increment_ref ==
  /\ variant = 3
  /\ trk.p # NULL
  /\ trk.d = 0
  /\ trk.k < MaxK
  /\ heap' = Linked(3, V3_increment_ref(heap, trk.p), free_list)
  /\ last' = Called("increment_ref", trk.p, NULL)
  /\ trk' = [trk EXCEPT !.k = @ + 1]
  /\ UNCHANGED <<variant, free_list, calls>>

ref_decrement_ref ==
  /\ variant = 3
  /\ trk.p # NULL
  /\ trk.d < trk.k + 1
  /\ heap' = Linked(3, V3_decrement_ref(heap, trk.p), free_list)
  /\ last' = Called("decrement_ref", trk.p, NULL)
  /\ trk' = [trk EXCEPT !.d = @ + 1]
  /\ UNCHANGED <<variant, free_list, calls>>

InitRef == Init /\ variant = 3

NextRef ==
  \/ ref_init_heap
  \/ ref_my_malloc
  \/ ref_increment_ref
  \/ ref_decrement_ref

SpecRef == InitRef /\ [][NextRef]_vars

\* The round trip: any calls of Spec, then a my_malloc that succeeds, the
\* release of its result at once, and my_malloc of the same size again.
\* trk holds the first result (p), the size (k) and the step reached (d).
my_malloc(v, h, fl, n) ==
  CASE v = 1 -> V1_my_malloc(h, fl, n)
    [] v = 2 -> V2_my_malloc(h, fl, n)
    [] OTHER -> V3_my_malloc(h, fl, n)

my_free(v, h, ptr) ==
  CASE v = 1 -> V1_my_free(h, ptr)
    [] v = 2 -> V2_my_free(h, ptr)
    [] OTHER -> V3_my_free(h, ptr)

RequestsOf(v) ==
  CASE v = 1 -> Requests1 [] v = 2 -> Requests2 [] OTHER -> Requests3

trip_before ==
  /\ trk.p = NULL
  /\ Next

trip_my_malloc ==
  /\ Call
  /\ Initialized
  /\ trk.p = NULL
  /\ \E n \in RequestsOf(variant) :
       LET r == my_malloc(variant, heap, free_list, n)
       IN  /\ r.ret # NULL
           /\ heap' = Linked(variant, r.heap, free_list)
           /\ last' = Called("my_malloc", n, r.ret)
           /\ trk' = [p |-> r.ret, k |-> n, d |-> 0]
  /\ UNCHANGED <<variant, free_list>>

trip_my_free ==
  /\ Call
  /\ trk.p # NULL
  /\ trk.d = 0
  /\ heap' = Linked(variant, my_free(variant, heap, trk.p), free_list)
  /\ last' = Called("my_free", trk.p, NULL)
  /\ trk' = [trk EXCEPT !.d = 1]
  /\ UNCHANGED <<variant, free_list>>

trip_decrement_ref ==
  /\ variant = 3
  /\ Call
  /\ trk.p # NULL
  /\ trk.d = 0
  /\ heap' = Linked(3, V3_decrement_ref(heap, trk.p), free_list)
  /\ last' = Called("decrement_ref", trk.p, NULL)
  /\ trk' = [trk EXCEPT !.d = 1]
  /\ UNCHANGED <<variant, free_list>>

trip_my_malloc_again ==
  /\ Call
  /\ trk.d = 1
  /\ LET r == my_malloc(variant, heap, free_list, trk.k)
     IN  /\ heap' = Linked(variant, r.heap, free_list)
         /\ last' = Called("my_malloc", trk.k, r.ret)
  /\ trk' = [trk EXCEPT !.d = 2]
  /\ UNCHANGED <<variant, free_list>>

NextTrip ==
  \/ trip_before
  \/ trip_my_malloc
  \/ trip_my_free
  \/ trip_decrement_ref
  \/ trip_my_malloc_again

SpecTrip == Init /\ [][NextTrip]_vars

\* The sweep of v2_heap.c: any calls of Spec, then coalesce_memory twice in a
\* row.  trk holds the number of blocks before the first of the two (k) and
\* how many of the two were made (d).
sweep_before ==
  /\ trk.d = 0
  /\ Next

sweep_coalesce_memory ==
  /\ variant = 2
  /\ Call
  /\ Initialized
  /\ trk.d = 0
  /\ heap' = Linked(2, V2_coalesce_memory(heap, 0), free_list)
  /\ last' = Called("coalesce_memory", NULL, NULL)
  /\ trk' = [trk EXCEPT !.k = Len(Blocks), !.d = 1]
  /\ UNCHANGED <<variant, free_list>>

sweep_coalesce_memory_again ==
  /\ variant = 2
  /\ Call
  /\ trk.d = 1
  /\ heap' = Linked(2, V2_coalesce_memory(heap, 0), free_list)
  /\ last' = Called("coalesce_memory", NULL, NULL)
  /\ trk' = [trk EXCEPT !.d = 2]
  /\ UNCHANGED <<variant, free_list>>

InitSweep == Init /\ variant = 2

NextSweep ==
  \/ sweep_before
  \/ sweep_coalesce_memory
  \/ sweep_coalesce_memory_again

SpecSweep == InitSweep /\ [][NextSweep]_vars

\* Allocation and release in v3_heap.c, one call deeper than Spec: init_heap
\* once, then my_malloc and my_free calls in any order.
FwdCalls == MaxCalls + 1

fwd_init_heap ==
  /\ variant = 3
  /\ ~Initialized
  /\ calls' = calls + 1
  /\ heap' = Linked(3, V3_init_heap(heap), free_list)
  /\ last' = Called("init_heap", NULL, NULL)
  /\ UNCHANGED <<variant, free_list, trk>>

fwd_my_malloc ==
  /\ variant = 3
  /\ Initialized
  /\ calls < FwdCalls
  /\ calls' = calls + 1
  /\ \E n \in Requests3 :
       LET r == V3_my_malloc(heap, free_list, n)
       IN  /\ heap' = Linked(3, r.heap, free_list)
           /\ last' = Called("my_malloc", n, r.ret)
  /\ UNCHANGED <<variant, free_list, trk>>

fwd_my_free ==
  /\ variant = 3
  /\ Initialized
  /\ calls < FwdCalls
  /\ calls' = calls + 1
  /\ \E p \in Ptrs :
       /\ heap' = Linked(3, V3_my_free(heap, p), free_list)
       /\ last' = Called("my_free", p, NULL)
  /\ UNCHANGED <<variant, free_list, trk>>

NextFwd ==
  \/ fwd_init_heap
  \/ fwd_my_malloc
  \/ fwd_my_free

SpecFwd == InitRef /\ [][NextFwd]_vars

\* The double release in v3_heap.c: the calls of SpecFwd, then the my_free
\* just made once more with the same pointer (trk.d = 1 after it).
twice_before ==
  /\ trk.d = 0
  /\ NextFwd

twice_my_free ==
  /\ variant = 3
  /\ trk.d = 0
  /\ last.op = "my_free"
  /\ last.arg # NULL
  /\ heap' = Linked(3, V3_my_free(heap, last.arg), free_list)
  /\ last' = Called("my_free", last.arg, NULL)
  /\ trk' = [trk EXCEPT !.d = 1]
  /\ UNCHANGED <<variant, free_list, calls>>

NextTwice ==
  \/ twice_before
  \/ twice_my_free

SpecTwice == InitRef /\ [][NextTwice]_vars

\* The two variants with uint8_t offsets and sizes, under any calls.
InitU8 == Init /\ variant # 1

NextU8 ==
  \/ v2_init_heap
  \/ v2_my_malloc
  \/ v2_my_free
  \/ v2_coalesce_memory
  \/ v3_init_heap
  \/ v3_my_malloc
  \/ v3_my_free
  \/ v3_increment_ref
  \/ v3_decrement_ref

SpecU8 == InitU8 /\ [][NextU8]_vars

\* ------------------------------------------------------------ properties
HDR == Hdr(variant)

\* Where the header and payload of the block at offset o end.
BlockEnd(o) == o + HDR + heap[o].size

IsFree(o) == heap[o].is_free # 0

RECURSIVE SumSizes(_)
SumSizes(w) ==
  IF w = <<>> THEN 0 ELSE HDR + heap[Head(w)].size + SumSizes(Tail(w))

\* The position of block o in the list.
Index(o) == CHOOSE i \in 1..Len(Blocks) : Blocks[i] = o

\* The offsets of the listed blocks: every action stores the headers a walk
\* from the anchor reaches (Linked) and no other.
Listed == DOMAIN heap

\* C1: once init_heap has run, the blocks listed from the anchor start at
\* arena offset 0, each begins where the one before it ends, the last one
\* ends where the arena ends, and header sizes plus block sizes add up to
\* HEAP_SIZE.
C1_Partition ==
  Initialized =>
    LET bs == Blocks
    IN  /\ Len(bs) >= 1
        /\ bs[1] = 0
        /\ \A i \in 1..(Len(bs) - 1) : bs[i + 1] = BlockEnd(bs[i])
        /\ BlockEnd(bs[Len(bs)]) = HeapSize(variant)
        /\ SumSizes(bs) = HeapSize(variant)

C1_Witness ==
  /\ variant = 2
  /\ last.op = "coalesce_memory"
  /\ Len(Blocks) >= 3
  /\ \E o \in BlockSet : ~IsFree(o)

\* C2: once init_heap has run, every listed block's next is the end-of-list
\* value or the offset right after the block's payload, which is never
\* offset 0; the list is in strictly ascending offset order without
\* repetition, and the anchor designates the block at offset 0.
C2_Links ==
  Initialized =>
    LET bs == Blocks
    IN  /\ free_list = 0
        /\ Len(bs) >= 1 /\ bs[1] = 0
        /\ \A i \in 1..Len(bs) :
             \/ heap[bs[i]].next = EndOfList(variant)
             \/ heap[bs[i]].next = BlockEnd(bs[i]) /\ heap[bs[i]].next # 0
        /\ \A i \in 1..(Len(bs) - 1) : bs[i] < bs[i + 1]
        /\ \A i, j \in 1..Len(bs) : bs[i] = bs[j] => i = j

C2_Witness ==
  /\ variant = 3
  /\ last.op = "my_free"
  /\ Len(Blocks) >= 3
  /\ \E i \in 1..(Len(Blocks) - 1) :
       IsFree(Blocks[i]) /\ heap[Blocks[i]].next = BlockEnd(Blocks[i])

\* The size my_malloc searches for: the request, aligned in 1_heap.c.
Wanted(n) == IF variant = 1 THEN ALIGN(n) ELSE n

Fits(o, n) == IsFree(o) /\ heap[o].size >= n

\* C3: a my_malloc that succeeds hands out a block that was listed, free
\* and large enough before the call, and no block before it in the list
\* was both free and large enough.
C3_FirstFit ==
  [][(last'.op = "my_malloc" /\ last'.ret # NULL) =>
       LET b == last'.ret - HDR
           n == Wanted(last'.arg)
       IN  /\ b \in BlockSet
           /\ Fits(b, n)
           /\ \A i \in 1..(Index(b) - 1) : ~Fits(Blocks[i], n)]_vars

\* A freed first block is reused although the last block is free and large
\* enough too.
C3_Witness ==
  /\ variant = 2
  /\ last.op = "my_malloc"
  /\ last.ret = V2_HDR
  /\ Len(Blocks) >= 3
  /\ Fits(Blocks[Len(Blocks)], last.arg)

\* No listed block is free and holds n bytes.
NoneFits(n) == LET bs == Blocks IN \A i \in 1..Len(bs) : ~Fits(bs[i], n)

\* C4: in 1_heap.c, for every request n of the size_t range, my_malloc(n)
\* returns NULL or the payload of a block of size >= n, and it returns NULL
\* whenever no free block has size >= n.
C4_AtLeastRequested ==
  [][(variant = 1 /\ last'.op = "my_malloc") =>
       /\ last'.ret # NULL => heap'[last'.ret - V1_HDR].size >= last'.arg
       /\ NoneFits(last'.arg) => last'.ret = NULL]_vars

\* C5: in every variant, a my_malloc whose request no free block can hold
\* returns NULL and leaves every header and the anchor as they were.
C5_ExhaustionNoEffect ==
  [][(last'.op = "my_malloc" /\ NoneFits(last'.arg)) =>
       /\ last'.ret = NULL
       /\ heap' = heap
       /\ free_list' = free_list]_vars

\* C6: in every variant my_malloc(0) returns NULL and leaves every header
\* as it was.
C6_ZeroRefused ==
  [][(last'.op = "my_malloc" /\ last'.arg = 0) =>
       last'.ret = NULL /\ heap' = heap]_vars

\* C7: in v3_heap.c, my_free of an allocated block B with a free list-next
\* neighbour N leaves B free with size B.size + header + N.size and next
\* N.next, and N unlisted; with N allocated or B last in the list only
\* B.is_free changes.
C7_ForwardCoalesce ==
  [][(variant = 3 /\ last'.op = "my_free" /\ last'.arg # NULL
        /\ last'.arg - V3_HDR \in BlockSet /\ ~IsFree(last'.arg - V3_HDR)) =>
       LET b == last'.arg - V3_HDR
           n == heap[b].next
       IN  IF n # 0 /\ IsFree(n)
           THEN /\ heap'[b] = [heap[b] EXCEPT !.is_free = 1,
                                              !.size = heap[b].size + V3_HDR + heap[n].size,
                                              !.next = heap[n].next]
                /\ n \notin BlockSet'
                /\ \A o \in BlockSet \ {b, n} : o \in BlockSet' /\ heap'[o] = heap[o]
           ELSE heap' = [heap EXCEPT ![b].is_free = 1]]_vars

\* A release that merged: the freed block is larger than my_malloc hands out
\* for any of the requests, and the block after it is allocated.
C7_Witness ==
  /\ variant = 3
  /\ last.op = "my_free"
  /\ last.arg # NULL
  /\ LET b == last.arg - V3_HDR
     IN  /\ b \in BlockSet
         /\ IsFree(b)
         /\ \A n \in Requests3 : ~(n <= heap[b].size /\ heap[b].size <= n + V3_HDR)
         /\ heap[b].next # 0
         /\ ~IsFree(heap[b].next)

\* The call before released the block a (pointer a + header).
JustFreed(a) == last.op = "my_free" /\ last.arg = a + HDR

\* C8 as claimed: in v3_heap.c, when the first of two adjacent blocks (of
\* sizes above 0) has just been released and the second is released next,
\* one free block spans both.
C8_ArenaOrderMerges ==
  [][(variant = 3 /\ last'.op = "my_free" /\ last'.arg # NULL
        /\ last'.arg - V3_HDR \in BlockSet /\ ~IsFree(last'.arg - V3_HDR)) =>
       LET b == last'.arg - V3_HDR
           bs == Blocks
       IN  \A i \in 1..(Len(bs) - 1) :
             (bs[i + 1] = b /\ IsFree(bs[i]) /\ JustFreed(bs[i])
                /\ heap[bs[i]].size > 0 /\ heap[b].size > 0) =>
               /\ b \notin BlockSet'
               /\ heap'[bs[i]].size >= heap[bs[i]].size + V3_HDR + heap[b].size]_vars

\* C8 amended: released second-then-first, the first absorbs the second
\* (one free block, one header reclaimed); released first-then-second, the
\* first stays as it was and the second is a separate free block after it.
C8_ReverseOrderMerges ==
  [][(variant = 3 /\ last'.op = "my_free" /\ last'.arg # NULL
        /\ last'.arg - V3_HDR \in BlockSet /\ ~IsFree(last'.arg - V3_HDR)) =>
       LET b == last'.arg - V3_HDR
           bs == Blocks
       IN  \A i \in 1..(Len(bs) - 1) :
             /\ (bs[i] = b /\ IsFree(bs[i + 1]) /\ JustFreed(bs[i + 1])) =>
                  /\ bs[i + 1] \notin BlockSet'
                  /\ heap'[b].is_free # 0
                  /\ heap'[b].size = heap[b].size + V3_HDR + heap[bs[i + 1]].size
                  /\ heap'[b].next = heap[bs[i + 1]].next
             /\ (bs[i + 1] = b /\ IsFree(bs[i]) /\ JustFreed(bs[i])) =>
                  /\ heap'[bs[i]] = heap[bs[i]]
                  /\ b \in BlockSet'
                  /\ heap'[b].is_free # 0
                  /\ heap'[bs[i]].next = b]_vars

\* Two list-adjacent free blocks, the second one released by the last call.
C8_Witness ==
  /\ variant = 3
  /\ last.op = "my_free"
  /\ LET bs == Blocks
     IN  \E i \in 1..(Len(bs) - 1) :
           IsFree(bs[i]) /\ IsFree(bs[i + 1]) /\ last.arg = bs[i + 1] + V3_HDR

\* C9: in the scenario of SpecRef the block is allocated after each of the
\* first k decrement_ref calls and free after the (k+1)-th.
C9_BalancedRelease ==
  (trk.p # NULL /\ trk.d >= 1) =>
     /\ trk.d <= trk.k => ~IsFree(trk.p - V3_HDR)
     /\ trk.d = trk.k + 1 => IsFree(trk.p - V3_HDR)

C11_UnderflowClamped ==
  [][(variant = 3 /\ last'.op = "decrement_ref" /\ last'.arg # NULL
        /\ last'.arg - V3_HDR \in Listed) =>
       LET b == last'.arg - V3_HDR
       IN  /\ heap[b].ref_count = 0 => heap' = heap
           /\ b \in Listed'
           /\ heap'[b].ref_count \in 0..heap[b].ref_count]_vars

\* After init_heap and one my_malloc, decrement_ref on the free last block,
\* whose ref_count is 0: it is still free with ref_count 0, and the block
\* before it still allocated.
C11_Witness ==
  /\ variant = 3
  /\ calls = 3
  /\ last.op = "decrement_ref"
  /\ Len(Blocks) = 2
  /\ last.arg = Blocks[2] + V3_HDR
  /\ ~IsFree(Blocks[1])
  /\ IsFree(Blocks[2])
  /\ heap[Blocks[2]].ref_count = 0

\* C12: in every variant, when my_malloc(n) has succeeded with p, p has been
\* released by the next call (my_free, or decrement_ref in v3_heap.c) and
\* my_malloc(n) is the call after that, it returns p again.
C12_RoundTrip ==
  trk.d = 2 => (last.op = "my_malloc" /\ last.ret # NULL /\ last.ret = trk.p)

\* A completed round trip in v3_heap.c on a block behind an allocated one:
\* the release merged it with the free block after it, and the second
\* my_malloc split it again.
C12_Witness ==
  /\ variant = 3
  /\ trk.d = 2
  /\ trk.k > 0
  /\ last.ret = trk.p
  /\ trk.p - V3_HDR # 0
  /\ ~IsFree(0)
  /\ heap[trk.p - V3_HDR].next # 0
  /\ IsFree(heap[trk.p - V3_HDR].next)

\* C13: in every variant and from every state, init_heap leaves a list of
\* exactly one block: at offset 0, of size HEAP_SIZE minus the header size,
\* free, with the end-of-list value as next (and ref_count 0 in v3_heap.c),
\* designated by the anchor; no block of before is listed any more.
C13_InitResets ==
  [][(last'.op = "init_heap") =>
       /\ free_list' = 0
       /\ Blocks' = <<0>>
       /\ DOMAIN heap' = {0}
       /\ heap'[0].size = HeapSize(variant) - HDR
       /\ heap'[0].is_free = 1
       /\ heap'[0].next = EndOfList(variant)
       /\ (variant = 3 => heap'[0].ref_count = 0)]_vars

\* init_heap as the fifth call, the first one being init_heap too.
C13_Witness ==
  /\ last.op = "init_heap"
  /\ calls = 5
  /\ Blocks = <<0>>
  /\ IsFree(0)

\* C14: in every variant, in a state with exactly one free block, of size
\* S, my_malloc(S) returns that block, leaves the list with the same blocks
\* and the block with size S, marks it allocated and changes no other
\* header, and my_malloc(S + 1) returns NULL.
C14_ExactFit ==
  Initialized =>
    LET bs == Blocks
        fr == {i \in 1..Len(bs) : IsFree(bs[i])}
    IN  Cardinality(fr) = 1 =>
          LET b == bs[CHOOSE i \in fr : TRUE]
              S == heap[b].size
              r == my_malloc(variant, heap, free_list, S)
          IN  /\ r.ret = b + HDR
              /\ print_heap(variant, r.heap, free_list) = bs
              /\ r.heap[b].size = S
              /\ r.heap[b].is_free = 0
              /\ \A i \in 1..Len(bs) : bs[i] # b => r.heap[bs[i]] = heap[bs[i]]
              /\ my_malloc(variant, heap, free_list, S + 1).ret = NULL

\* A maximal run of free blocks starts at position i of the list bs, and
\* where it ends.
RunStart(bs, i) == IsFree(bs[i]) /\ (i = 1 \/ ~IsFree(bs[i - 1]))

RunEnd(bs, i) ==
  CHOOSE j \in i..Len(bs) :
    /\ \A k \in i..j : IsFree(bs[k])
    /\ (j = Len(bs) \/ ~IsFree(bs[j + 1]))

\* C15: in v2_heap.c, after coalesce_memory no two list-adjacent blocks are
\* both free; every allocated block is listed at its offset with its size
\* and is_free value; the first block of each maximal run of free blocks is
\* free and its size is the sum of the run's sizes plus one header size for
\* each other block of the run, none of which is listed any more; and a
\* coalesce_memory right after a coalesce_memory changes nothing.
C15_FullSweep ==
  [][(variant = 2 /\ last'.op = "coalesce_memory") =>
       LET bs == Blocks
           ns == Blocks'
       IN  /\ \A i \in 1..(Len(ns) - 1) :
                 ~(heap'[ns[i]].is_free # 0 /\ heap'[ns[i + 1]].is_free # 0)
           /\ \A i \in 1..Len(bs) :
                 ~IsFree(bs[i]) =>
                   /\ bs[i] \in Listed'
                   /\ heap'[bs[i]].size = heap[bs[i]].size
                   /\ heap'[bs[i]].is_free = heap[bs[i]].is_free
           /\ \A i \in 1..Len(bs) :
                 RunStart(bs, i) =>
                   LET j == RunEnd(bs, i)
                   IN  /\ bs[i] \in Listed'
                       /\ heap'[bs[i]].is_free # 0
                       /\ heap'[bs[i]].size = SumSizes(SubSeq(bs, i, j)) - HDR
                       /\ \A k \in (i + 1)..j : bs[k] \notin Listed'
           /\ last.op = "coalesce_memory" => heap' = heap]_vars

\* A sweep that absorbed two blocks at least: a run of three free blocks
\* became one.
C15_Witness ==
  /\ trk.d = 1
  /\ last.op = "coalesce_memory"
  /\ trk.k >= Len(Blocks) + 2

\* C16: once init_heap has run, the walk of print_heap ends by itself and
\* visits no block twice, and the loops of my_malloc (for every request)
\* and of coalesce_memory (v2_heap.c) run their bodies at most as many times
\* as there are blocks listed from the anchor.
C16_LoopsTerminate ==
  Initialized =>
    LET bs == Blocks
    IN  /\ Len(bs) < WalkFuel(variant)
        /\ Len(bs) = Cardinality({bs[i] : i \in 1..Len(bs)})
        /\ \A n \in RequestsOf(variant) :
              my_malloc_loop(variant, heap, free_list, Wanted(n),
                            WalkFuel(variant)) <= Len(bs)
        /\ variant = 2 => coalesce_memory_loop(heap, 0, WalkFuel(2)) <= Len(bs)

\* A my_malloc of v3_heap.c that walked a list of three blocks or more to
\* its end and found none that fits.
C16_Witness ==
  /\ variant = 3
  /\ last.op = "my_malloc"
  /\ last.ret = NULL
  /\ Len(Blocks) >= 3
  /\ my_malloc_loop(3, heap, free_list, last.arg, WalkFuel(3)) = Len(Blocks)

\* C17: my_free(NULL) in every variant, and increment_ref(NULL) and
\* decrement_ref(NULL) in v3_heap.c, change no header and not the anchor.
C17_NullNoOp ==
  [][(last'.op \in {"my_free", "increment_ref", "decrement_ref"}
        /\ last'.arg = NULL) =>
       heap' = heap /\ free_list' = free_list]_vars

\* increment_ref(NULL) in v3_heap.c with two blocks allocated: their counts
\* are as my_malloc set them.
C17_Witness ==
  /\ variant = 3
  /\ last.op = "increment_ref"
  /\ last.arg = NULL
  /\ LET bs == Blocks
     IN  /\ Len(bs) >= 3
         /\ \A i \in 1..2 : ~IsFree(bs[i]) /\ heap[bs[i]].ref_count = 1

\* C18: a my_malloc(n) that succeeds on block B of size S (n aligned in
\* 1_heap.c) leaves, when S - n exceeds the header size, B with size n and
\* next at a new free block that starts n bytes after B's payload start,
\* has size S - n - header size >= 1 and B's old next; otherwise the same
\* blocks and B with size S.  Either way n <= B.size <= n + header size, B
\* is allocated, B.ref_count is 1 in v3_heap.c, and no other block changes.
C18_SplitPolicy ==
  [][(last'.op = "my_malloc" /\ last'.ret # NULL /\ last'.ret - HDR \in Listed) =>
       LET b == last'.ret - HDR
           n == Wanted(last'.arg)
           S == heap[b].size
           nb == b + HDR + n
       IN  /\ IF S - n > HDR
              THEN /\ heap'[b].size = n
                   /\ heap'[b].next = nb
                   /\ nb \notin Listed
                   /\ Listed' = Listed \cup {nb}
                   /\ heap'[nb].size = S - n - HDR
                   /\ heap'[nb].size >= 1
                   /\ heap'[nb].is_free = 1
                   /\ heap'[nb].next = heap[b].next
              ELSE /\ Listed' = Listed
                   /\ heap'[b].size = S
                   /\ heap'[b].next = heap[b].next
           /\ n <= heap'[b].size
           /\ heap'[b].size <= n + HDR
           /\ heap'[b].is_free = 0
           /\ (variant = 3 => heap'[b].ref_count = 1)
           /\ \A o \in Listed \ {b} : heap'[o] = heap[o]]_vars

\* A my_malloc of v3_heap.c that handed out a block larger than the request
\* because the excess could not hold a header and one byte.
C18_Witness ==
  /\ variant = 3
  /\ last.op = "my_malloc"
  /\ last.ret # NULL
  /\ last.arg > 0
  /\ heap[last.ret - V3_HDR].size > last.arg
  /\ heap[last.ret - V3_HDR].ref_count = 1

\* C19: in v3_heap.c, my_free changes no header at an offset below the
\* released block; releasing an allocated block whose list-predecessor is
\* free leaves the two as separate free blocks, the predecessor linked to
\* the released one; and when the list-next neighbour N is free and has a
\* successor, the released block absorbs N alone: its next is N's successor,
\* which stays listed and unchanged, free or not.
C19_ForwardOnly ==
  [][(variant = 3 /\ last'.op = "my_free" /\ last'.arg # NULL
        /\ last'.arg - V3_HDR \in Listed) =>
       LET b == last'.arg - V3_HDR
           bs == Blocks
           i == CHOOSE k \in 1..Len(bs) : bs[k] = b
           n == heap[b].next
       IN  /\ \A o \in Listed : o < b => (o \in Listed' /\ heap'[o] = heap[o])
           /\ (~IsFree(b) /\ i > 1 /\ IsFree(bs[i - 1])) =>
                 /\ b \in Listed'
                 /\ heap'[b].is_free # 0
                 /\ heap'[bs[i - 1]].is_free # 0
                 /\ heap'[bs[i - 1]].next = b
           /\ (~IsFree(b) /\ n # 0 /\ IsFree(n) /\ heap[n].next # 0) =>
                 /\ heap'[b].next = heap[n].next
                 /\ heap'[b].size = heap[b].size + V3_HDR + heap[n].size
                 /\ heap[n].next \in Listed'
                 /\ heap'[heap[n].next] = heap[heap[n].next]]_vars

\* The seventh call released a block that absorbed its free neighbour (its
\* size is none my_malloc hands out) and stopped before the next block,
\* which is free too.
C19_Witness ==
  /\ variant = 3
  /\ calls = 7
  /\ last.op = "my_free"
  /\ last.arg # NULL
  /\ LET b == last.arg - V3_HDR
     IN  /\ b \in BlockSet
         /\ IsFree(b)
         /\ \A n \in Requests3 : ~(n <= heap[b].size /\ heap[b].size <= n + V3_HDR)
         /\ heap[b].next # 0
         /\ IsFree(heap[b].next)

\* C20: in v2_heap.c, my_free of an allocated block (of a size above 0)
\* whose list-next neighbour is free leaves the block merged with that
\* neighbour: the neighbour is not listed any more and the block has the
\* two sizes plus one header size and the neighbour's next.
C20_V2FreeCoalesces ==
  [][(variant = 2 /\ last'.op = "my_free" /\ last'.arg # NULL
        /\ last'.arg - V2_HDR \in Listed) =>
       LET b == last'.arg - V2_HDR
           n == heap[b].next
       IN  (~IsFree(b) /\ heap[b].size > 0 /\ n # 0 /\ IsFree(n)) =>
             /\ n \notin Listed'
             /\ heap'[b].size = heap[b].size + V2_HDR + heap[n].size
             /\ heap'[b].next = heap[n].next]_vars

\* C21: in 1_heap.c (header size 24, a multiple of ALIGNMENT), once
\* init_heap has run, the size of every listed block and its offset from
\* the arena start are multiples of 8, and so is the offset of every
\* address my_malloc returns.
C21_Aligned ==
  (variant = 1 /\ Initialized) =>
    /\ V1_HDR % ALIGNMENT = 0
    /\ \A b \in Listed : b % ALIGNMENT = 0 /\ heap[b].size % ALIGNMENT = 0
    /\ (last.op = "my_malloc" /\ last.ret # NULL) => last.ret % ALIGNMENT = 0

\* A my_malloc of 1_heap.c for a size that is no multiple of 8, served from
\* a block behind two others.
C21_Witness ==
  /\ variant = 1
  /\ last.op = "my_malloc"
  /\ last.ret # NULL
  /\ last.arg % ALIGNMENT # 0
  /\ Len(Blocks) >= 3
  /\ last.ret - V1_HDR = Blocks[3]

\* The values of a uint8_t.
InU8(x) == x \in 0..(U8 - 1)

\* C22: in v2_heap.c and v3_heap.c, once init_heap has run, the anchor,
\* every listed offset and every next field are below HEAP_SIZE; for every
\* request n of 0..255 and every free block that can hold it (of size S),
\* remaining = S - n and, when the block is split, new_offset = offset +
\* header size + n and the size remaining - header size, computed in the
\* integers, are
\* values of a uint8_t, new_offset below HEAP_SIZE; and so is the size a
\* block gets by absorbing a free list-next neighbour (my_free of
\* v3_heap.c) or the rest of its run of free blocks (coalesce_memory).
C22_NoWrap ==
  (variant # 1 /\ Initialized) =>
    LET bs == Blocks
        hs == HeapSize(variant)
        hdr == HDR
    IN  /\ free_list < hs
        /\ \A i \in 1..Len(bs) :
              /\ bs[i] < hs
              /\ heap[bs[i]].next < hs
              /\ InU8(heap[bs[i]].size)
        /\ \A i \in 1..Len(bs) :
              IsFree(bs[i]) =>
                LET S == heap[bs[i]].size
                    top == IF S < U8 THEN S ELSE U8 - 1
                    o == bs[i] + hdr
                IN  \A n \in 0..top :
                      /\ InU8(S - n)
                      /\ S - n > hdr =>
                            /\ InU8(o + n)
                            /\ o + n < hs
                            /\ InU8(S - n - hdr)
        /\ \A i \in 1..(Len(bs) - 1) :
              IsFree(bs[i + 1]) =>
                InU8(heap[bs[i]].size + HDR + heap[bs[i + 1]].size)
        /\ \A i \in 1..Len(bs) :
              RunStart(bs, i) =>
                InU8(SumSizes(SubSeq(bs, i, RunEnd(bs, i))) - HDR)

\* A my_malloc(255) of v2_heap.c that found no block, in a list with two
\* free blocks next to each other.
C22_Witness ==
  /\ variant = 2
  /\ last.op = "my_malloc"
  /\ last.arg = U8 - 1
  /\ last.ret = NULL
  /\ \E i \in 1..(Len(Blocks) - 1) : IsFree(Blocks[i]) /\ IsFree(Blocks[i + 1])

\* C23: in v3_heap.c, when the caller makes init_heap, my_malloc,
\* increment_ref and decrement_ref calls only, the last two on blocks that
\* are allocated (here the calls of SpecRef up to the first decrement_ref:
\* init_heap, one my_malloc, increment_ref calls on its result), every
\* listed block (of a size above 0) is free exactly when its ref_count is 0.
C23_FreeIffZero ==
  (variant = 3 /\ Initialized /\ trk.d = 0) =>
    \A b \in Listed :
      heap[b].size > 0 => (IsFree(b) <=> heap[b].ref_count = 0)

\* C24: in v3_heap.c, a my_free(p) that follows my_free(p) at once changes
\* no header of any block, whatever the blocks after p's block are.
C24_DoubleRelease ==
  [][(variant = 3 /\ last.op = "my_free" /\ last'.op = "my_free"
        /\ last.arg # NULL /\ last'.arg = last.arg) =>
       heap' = heap]_vars

\* The second my_free of a block that had absorbed its neighbour (its size
\* is none my_malloc hands out) with a free block right after it: the two
\* are still separate.
C24_Witness ==
  /\ variant = 3
  /\ trk.d = 1
  /\ last.op = "my_free"
  /\ LET b == last.arg - V3_HDR
     IN  /\ b \in Listed
         /\ IsFree(b)
         /\ \A n \in Requests3 : ~(n <= heap[b].size /\ heap[b].size <= n + V3_HDR)
         /\ heap[b].next # 0
         /\ IsFree(heap[b].next)

====
